---- MODULE Spec2Model ----
(***************************************************************************)
(* The Pub/Sub triggered Cloud Function of src/index.js: one invocation of *)
(* launchPagespeedInsights per trigger message, the debounce state blob in *)
(* the bucket, the PageSpeed Insights call, the report/log writes, the     *)
(* scratch NDJSON file and the BigQuery load.  Every await of the code is  *)
(* a point where an invocation waits; the completion of the awaited call   *)
(* (success or failure) is one action.                                     *)
(***************************************************************************)
EXTENDS Integers, Sequences, FiniteSets, TLC

\* ------------------------------------------------------------------ bounds
\* number of trigger messages delivered, last clock value, and the
\* configured config.minTimeBetweenTriggers
MaxInvocations == 2
MaxTime == 2
minTimeBetweenTriggers == 2
\* longest list of ids handed to sendAllPubsubMsgs when it is called directly
MaxIds == 3

\* ----------------------------------------------------------- configuration
\* Strings that the code takes apart (Buffer.from, toString) are sequences of
\* code points; all other strings are atoms.
all == <<97, 108, 108>>
googlesearch == <<103, 111, 111, 103, 108, 101, 115, 101, 97, 114, 99, 104>>
ebay == <<101, 98, 97, 121>>
invalid_message == <<105, 110, 118, 97, 108, 105, 100>>
cafe == <<99, 97, 102, 233>>

source ==
  << [id |-> googlesearch, url |-> "https://www.google.com/",
      strategy |-> "mobile", category |-> <<"performance">>],
     [id |-> ebay, url |-> "https://www.ebay.com/",
      strategy |-> "desktop", category |-> <<"performance", "seo">>] >>

pubsubTopicId == "launch-lighthouse"
bucketName == "pagespeedinsights-reports"
datasetId == "lighthouse"

\* config.outputFormat as found in config.json: absent, or a list of formats.
OutputFormats ==
  { [defined |-> FALSE, list |-> <<>>],
    [defined |-> TRUE, list |-> <<>>],
    [defined |-> TRUE, list |-> <<"json">>],
    [defined |-> TRUE, list |-> <<"csv", "json", "html">>],
    [defined |-> TRUE, list |-> <<"json", "json">>] }

\* ----------------------------------------------------------------- helpers
\* Invocation records: the record of an ended invocation is taken again by
\* the next one; two are in use when two invocations overlap.
Invocations == {1, 2}

Range(s) == {s[k] : k \in DOMAIN s}

\* Array.prototype.map
RECURSIVE Map(_, _)
Map(F(_), s) == IF s = <<>> THEN <<>> ELSE <<F(Head(s))>> \o Map(F, Tail(s))

\* Buffer.from(string): the UTF-8 encoding of the string.
Utf8(c) ==
  IF c < 128 THEN <<c>>
  ELSE IF c < 2048 THEN <<192 + (c \div 64), 128 + (c % 64)>>
  ELSE <<224 + (c \div 4096), 128 + ((c \div 64) % 64), 128 + (c % 64)>>

RECURSIVE BufferFrom(_)
BufferFrom(str) ==
  IF str = <<>> THEN <<>> ELSE Utf8(Head(str)) \o BufferFrom(Tail(str))

\* Buffer.prototype.toString(): UTF-8 decoding, U+FFFD for a malformed byte.
RECURSIVE BufferToString(_)
BufferToString(b) ==
  IF b = <<>> THEN <<>>
  ELSE IF b[1] < 128 THEN <<b[1]>> \o BufferToString(Tail(b))
  ELSE IF b[1] \in 194..223 /\ Len(b) >= 2 /\ b[2] \in 128..191
    THEN <<(b[1] - 192) * 64 + (b[2] - 128)>> \o BufferToString(Tail(Tail(b)))
  ELSE <<65533>> \o BufferToString(Tail(b))

\* Math.round for an integer numerator over a positive integer denominator.
MathRound(n, d) == (2 * n + d) \div (2 * d)

\* event.data of the trigger messages, given as the bytes its base64 text
\* stands for.
Payloads ==
  { BufferFrom(all), BufferFrom(googlesearch), BufferFrom(ebay),
    BufferFrom(invalid_message), BufferFrom(cafe) }

\* ------------------------------------------------------------------- state
VARIABLES
  clock,         \* the last value returned by new Date().getTime()
  outputFormat,  \* config.outputFormat
  stateFiles,    \* bucket objects {id}/{strategy}/state.json -> parsed content
  objects,       \* bucket objects written by writeLogAndReportsToStorage
  tmpFiles,      \* the files /tmp/{uuid}.json
  nextUuid,      \* uuidv1 generator
  fetched,       \* history: the invocations that called the audit API
  process,       \* the Node.js process: loading, serving or failed
  configKeys,    \* the required keys, other than outputFormat, of config.json
  inv            \* the invocations of launchPagespeedInsights (see NewFrame)

vars == <<clock, outputFormat, stateFiles, objects, tmpFiles, nextUuid, fetched,
          process, configKeys, inv>>

EmptyBlob == [k \in {} |-> [created |-> 0]]

\* The locals of one invocation and what it did so far.
NewFrame ==
  [pc |-> "idle",          \* the await the invocation waits at
   msg |-> <<>>,           \* decoded trigger payload
   uuid |-> 0,             \* const uuid
   timeNow |-> 0,          \* const timeNow
   eventStates |-> EmptyBlob, \* eventStates of checkEventState
   eventState |-> <<>>,    \* <<>> or <<value returned by checkEventState>>
   json |-> <<>>,          \* <<>> or <<the report object>>
   publishes |-> <<>>,     \* the promises of sendAllPubsubMsgs, one per id
   reportSaves |-> <<>>,   \* the promises of the report writes, one per format
   calls |-> <<>>,         \* calls made to the external clients, in order
   logs |-> <<>>,          \* console.log lines
   errors |-> <<>>,        \* console.error lines
   failures |-> <<>>,      \* the awaited calls that failed, in order
   outcome |-> "none"]     \* the promise returned: none, resolved, rejected

\* The keys config.schema.json requires.
RequiredKeys ==
  { "projectId", "source", "datasetId", "pubsubTopicId",
    "minTimeBetweenTriggers", "outputFormat", "gcs.bucketName" }

\* validator.validate(config, configSchema).errors: one error per required
\* key that is missing
ValidationErrors ==
  RequiredKeys \ (configKeys \cup IF outputFormat.defined THEN {"outputFormat"} ELSE {})

\* The module is loaded and its function is exported: as deployed, with a
\* configuration that passed init(), or under NODE_ENV = 'test', where init()
\* is not run and the tests also take outputFormat away.
Init ==
  /\ process = "serving"
  /\ configKeys = RequiredKeys \ {"outputFormat"}
  /\ clock = 0
  /\ outputFormat \in OutputFormats
  /\ stateFiles = [p \in {} |-> EmptyBlob]
  /\ objects = [p \in {} |-> [stringified |-> FALSE, obj |-> 0]]
  /\ tmpFiles = [u \in {} |-> <<>>]
  /\ nextUuid = 1
  /\ fetched = <<>>
  /\ inv = [i \in Invocations |-> NewFrame]

\* ------------------------------------------------------- pieces of the code
\* const ids = source.map(obj => obj.id)
SourceIds == Map(LAMBDA obj : obj.id, source)

\* variant: the negation of ids.includes(msg) is lost
IsInvalidMessageNegationLost(m) == m # all /\ m \in Range(SourceIds)

\* msg !== 'all' && !ids.includes(msg)
IsInvalidMessage(m) == m # all /\ m \notin Range(SourceIds)

\* const [src] = source.filter(obj => obj.id === msg)
HasSource(m) == \E k \in DOMAIN source : source[k].id = m

Src(m) ==
  source[CHOOSE k \in DOMAIN source :
           /\ source[k].id = m
           /\ \A j \in DOMAIN source : j < k => source[j].id # m]

\* the object name `${id}/${strategy}/state.json`
StatePath(id, strategy) == <<id, strategy, "state.json">>

\* the object name `${id}/${obj.emulatedFormFactor}/report_...` or log_...
ObjectPath(id, formFactor, kind, ts) == <<id, formFactor, kind, ts, ".json">>

\* writing an object of the bucket or a file
Written(files, name, content) ==
  [n \in DOMAIN files \cup {name} |-> IF n = name THEN content ELSE files[n]]

\* variant: the catch block logs the error and never returns
CatchHangs(f, e) == [f EXCEPT !.errors = Append(@, e), !.pc = "hung"]

\* the catch block of launchPagespeedInsights
Catch(f, e) ==
  [f EXCEPT !.errors = Append(@, e), !.pc = "done", !.outcome = "resolved"]

\* a return inside the try block with a value that is no pending promise
Return(f) == [f EXCEPT !.pc = "done", !.outcome = "resolved"]

\* an awaited call fails
Failed(f, op) == [f EXCEPT !.failures = Append(@, op)]

\* the awaited call op of the invocation has failed
FailedIn(f, op) == op \in Range(f.failures)

\* variant: the id is published as it is, without Buffer.from
PublishCallUnencoded(id) ==
  [op |-> "publish", topic |-> pubsubTopicId, data |-> id]

\* sendAllPubsubMsgs: the publish issued for one id
PublishCall(id) ==
  [op |-> "publish", topic |-> pubsubTopicId, data |-> BufferFrom(id)]

\* variant: the first id is skipped
PublishCallsSkipFirst(ids) ==
  IF ids = <<>> THEN <<>> ELSE Map(PublishCall, Tail(ids))

\* sendAllPubsubMsgs: ids.map(...) runs every callback up to its await
PublishCalls(ids) == Map(PublishCall, ids)

\* variant: only the publish of the first id is started before the await
\* (the ids are published one after the other)
SendAllPubsubMsgsOneByOne(f, ids) ==
  LET first == SubSeq(ids, 1, IF ids = <<>> THEN 0 ELSE 1)
      g == [f EXCEPT
              !.publishes = Map(LAMBDA id : [id |-> id, state |-> "pending"], ids),
              !.calls = @ \o PublishCalls(first),
              !.logs = @ \o Map(LAMBDA id : <<id, "Sending init PubSub message">>, first)]
  IN IF ids = <<>> THEN Return(g) ELSE [g EXCEPT !.pc = "publishing"]

\* sendAllPubsubMsgs up to the await of Promise.all
SendAllPubsubMsgs(f, ids) ==
  LET g == [f EXCEPT
              !.publishes = Map(LAMBDA id : [id |-> id, state |-> "pending"], ids),
              !.calls = @ \o PublishCalls(ids),
              !.logs = @ \o Map(LAMBDA id : <<id, "Sending init PubSub message">>, ids)]
  IN IF ids = <<>> THEN Return(g) ELSE [g EXCEPT !.pc = "publishing"]

\* checkEventState: const delta = id in eventStates && (timeNow - created);
\* delta && delta < config.minTimeBetweenTriggers
Delta(states, id, now) == now - states[id].created

IsActive(states, id, now) ==
  /\ id \in DOMAIN states
  /\ Delta(states, id, now) # 0
  /\ Delta(states, id, now) < minTimeBetweenTriggers

\* variant: the blob saved holds the record of id only
WithRecordOnly(states, id, now) == Written(EmptyBlob, id, [created |-> now])

\* eventStates[id] = {created: timeNow}
WithRecord(states, id, now) == Written(states, id, [created |-> now])

\* variant: the return on an active event is missing
AbortsOnNever(result) == FALSE

\* launchPagespeedInsights: if (eventState.active) { return log(...) }
AbortsOn(result) == result.active

\* launchPagespeedInsights: getPagespeedInsightsReport(id, device, url)
ReportArguments(src) ==
  [id |-> src.id, url |-> src.strategy, strategy |-> src.url, category |-> <<>>]

\* getPagespeedInsightsReport: the request; category = category || []
RunPagespeedCall(a) ==
  [op |-> "runpagespeed", url |-> a.url, strategy |-> a.strategy,
   category |-> a.category]

\* getPagespeedInsightsReport: psi.id, psi.url, psi.emulatedFormFactor
Annotated(a, ts) ==
  [id |-> a.id, url |-> a.url, emulatedFormFactor |-> a.strategy,
   analysisUTCTimestamp |-> ts, job_id |-> <<>>]

\* getPagespeedInsightsReport up to its await
RequestReport(f) ==
  LET a == ReportArguments(Src(f.msg)) IN
  [f EXCEPT
     !.calls = Append(@, RunPagespeedCall(a)),
     !.logs = Append(@, <<a.id, "Requesting Pagespeed Insight report", a.url, a.strategy>>),
     !.pc = "runpagespeed"]

\* launchPagespeedInsights after checkEventState has returned result
AfterCheckEventState(f, result) ==
  LET src == Src(f.msg)
      g == [f EXCEPT !.eventState = <<result>>]
  IN IF AbortsOn(result)
       THEN Return([g EXCEPT !.logs = Append(@,
                      <<src.id, "Found active event, aborting", src.strategy,
                        result.delta, MathRound(minTimeBetweenTriggers, 1000)>>)])
       ELSE RequestReport(g)

\* variant: the 'csv' case sets output as well
IsOutputCsvToo(fileType) == fileType \in {"json", "csv"}

\* writeLogAndReportsToStorage: the switch; only 'json' sets output
IsOutput(fileType) == fileType = "json"

ReportSaveCall(obj, id) ==
  [op |-> "save", bucket |-> bucketName,
   file |-> ObjectPath(id, obj.emulatedFormFactor, "report", obj.analysisUTCTimestamp),
   body |-> [stringified |-> FALSE, obj |-> obj]]

\* variant: the log is written under the name of the report
LogSaveCallAsReport(obj, id) ==
  [op |-> "save", bucket |-> bucketName,
   file |-> ObjectPath(id, obj.emulatedFormFactor, "report", obj.analysisUTCTimestamp),
   body |-> [stringified |-> TRUE, obj |-> obj]]

\* writeLogAndReportsToStorage: file.save(JSON.stringify(obj, null, " "))
LogSaveCall(obj, id) ==
  [op |-> "save", bucket |-> bucketName,
   file |-> ObjectPath(id, obj.emulatedFormFactor, "log", obj.analysisUTCTimestamp),
   body |-> [stringified |-> TRUE, obj |-> obj]]

\* writeLogAndReportsToStorage after Promise.all of the report writes
IssueLogSave(f) ==
  LET obj == f.json[1] IN
  [f EXCEPT
     !.calls = Append(@, LogSaveCall(obj, obj.id)),
     !.logs = Append(@, <<obj.id, "Writing log to bucket">>),
     !.pc = "logSave"]

\* writeLogAndReportsToStorage up to its first await that waits for a call
WriteLogAndReportsToStorage(f, formats) ==
  LET obj == f.json[1]
      out == SelectSeq(formats, IsOutput)
      g == [f EXCEPT
              !.reportSaves = Map(LAMBDA t : IF IsOutput(t) THEN "pending" ELSE "ok", formats),
              !.calls = @ \o Map(LAMBDA t : ReportSaveCall(obj, obj.id), out),
              !.logs = @ \o Map(LAMBDA t : <<obj.id, "Writing report to bucket", t>>, out),
              !.pc = "reportSaves"]
  IN IF out = <<>> THEN IssueLogSave(g) ELSE g

\* toNdjson: one line per item; a value that is no array is one item
toNdjson(data) == <<data>>

WriteFileCall(u, obj) ==
  [op |-> "writeFile", file |-> u, content |-> toNdjson(obj)]

\* variant: the metadata of the load carry no jobId of the invocation
LoadCallWithoutJobId(u) ==
  [op |-> "load", dataset |-> datasetId, table |-> "reports", file |-> u,
   metadata |-> [sourceFormat |-> "NEWLINE_DELIMITED_JSON", jobId |-> 0]]

\* launchPagespeedInsights: table('reports').load(`/tmp/${uuid}.json`, metadata)
LoadCall(u) ==
  [op |-> "load", dataset |-> datasetId, table |-> "reports", file |-> u,
   metadata |-> [sourceFormat |-> "NEWLINE_DELIMITED_JSON", jobId |-> u]]

AllSettled(f) ==
  /\ \A k \in DOMAIN f.publishes : f.publishes[k].state # "pending"
  /\ \A k \in DOMAIN f.reportSaves : f.reportSaves[k] # "pending"

\* An invocation record is free for the next trigger message when it was
\* never used, or when its invocation has ended and none of its promises is
\* still pending.
Free(i) == inv[i].pc = "idle" \/ (inv[i].pc = "done" /\ AllSettled(inv[i]))

\* One trigger message is processed to completion before the next one is
\* taken: every invocation has ended and none of its promises is pending.
Sequential(i) == \A j \in Invocations : Free(j)

\* the audit API is called by invocation i in this step
Fetches(i) == inv[i].pc # "runpagespeed" /\ inv'[i].pc = "runpagespeed"

History(i) ==
  fetched' = IF Fetches(i)
               THEN Append(fetched, [uuid |-> inv'[i].uuid, id |-> inv'[i].msg,
                                     timeNow |-> inv'[i].timeNow,
                                     read |-> "download" \notin Range(inv'[i].failures)])
               ELSE fetched

\* ----------------------------------------------------------------- actions
\* launchPagespeedInsights from its entry to its first await or return; now
\* is the value of new Date().getTime().
Start(i, data, now) ==
  /\ process = "serving"
  /\ nextUuid <= MaxInvocations
  /\ now >= clock
  /\ Free(i)
  /\ \A j \in Invocations : j < i => ~Free(j)
  /\ LET m == BufferToString(data)
         f == [NewFrame EXCEPT !.msg = m, !.uuid = nextUuid]
     IN
     IF IsInvalidMessage(m) THEN
       /\ inv' = [inv EXCEPT ![i] =
                    Return([f EXCEPT !.errors = <<"No valid message found!">>])]
       /\ clock' = clock
     ELSE IF m = all THEN
       /\ inv' = [inv EXCEPT ![i] = SendAllPubsubMsgs(f, SourceIds)]
       /\ clock' = clock
     ELSE IF ~HasSource(m) THEN
       /\ inv' = [inv EXCEPT ![i] =
                    Catch(f, "TypeError: Cannot read property 'id' of undefined")]
       /\ clock' = clock
     ELSE
       LET src == Src(m) IN
       /\ inv' = [inv EXCEPT ![i] =
                    [f EXCEPT
                       !.timeNow = now,
                       !.logs = <<<<src.id, "Received message to start", src.url, src.strategy>>>>,
                       !.calls = <<[op |-> "download", bucket |-> bucketName,
                                    file |-> StatePath(src.id, src.strategy)]>>,
                       !.pc = "download"]]
       /\ clock' = now
  /\ nextUuid' = nextUuid + 1
  /\ UNCHANGED <<process, configKeys, outputFormat, stateFiles, objects, tmpFiles, fetched>>

\* variant: the promise of sendAllPubsubMsgs settles only when every publish
\* has settled (Promise.allSettled followed by a check)
PublishDoneAllSettled(i, k, ok) ==
  LET f == inv[i] IN
  /\ k \in DOMAIN f.publishes
  /\ f.publishes[k].state = "pending"
  /\ LET g == [f EXCEPT
                 !.publishes[k].state = IF ok THEN "ok" ELSE "failed",
                 !.logs = IF ok THEN Append(@, <<f.publishes[k].id, "Init PubSub message sent">>)
                                ELSE @,
                 !.failures = IF ok THEN @ ELSE Append(@, "publish")]
     IN
     inv' = [inv EXCEPT ![i] =
               IF \E j \in DOMAIN g.publishes : g.publishes[j].state = "pending"
                 THEN g
               ELSE IF \E j \in DOMAIN g.publishes : g.publishes[j].state = "failed"
                 THEN [g EXCEPT !.pc = "done", !.outcome = "rejected"]
               ELSE Return(g)]
  /\ UNCHANGED <<process, configKeys, clock, outputFormat, stateFiles, objects, tmpFiles, nextUuid, fetched>>

\* One publish of sendAllPubsubMsgs settles.  Promise.all resolves when all
\* have resolved and rejects with the first rejection; the promise returned
\* by launchPagespeedInsights follows it (return without await).
PublishDone(i, k, ok) ==
  LET f == inv[i] IN
  /\ k \in DOMAIN f.publishes
  /\ f.publishes[k].state = "pending"
  /\ LET g == [f EXCEPT
                 !.publishes[k].state = IF ok THEN "ok" ELSE "failed",
                 !.logs = IF ok THEN Append(@, <<f.publishes[k].id, "Init PubSub message sent">>)
                                ELSE @,
                 !.failures = IF ok THEN @ ELSE Append(@, "publish")]
     IN
     inv' = [inv EXCEPT ![i] =
               IF f.pc = "publishing" /\ ~ok
                 THEN [g EXCEPT !.pc = "done", !.outcome = "rejected"]
               ELSE IF f.pc = "publishing"
                       /\ \A j \in DOMAIN g.publishes : g.publishes[j].state = "ok"
                 THEN Return(g)
               ELSE g]
  /\ UNCHANGED <<process, configKeys, clock, outputFormat, stateFiles, objects, tmpFiles, nextUuid, fetched>>

\* checkEventState: the download and the read of the state file complete (or
\* fail, which the empty catch swallows), the decision is taken and, when the
\* event is not active, the save of the new state is issued.
DownloadDone(i, ok) ==
  LET f == inv[i]
      src == Src(f.msg)
      path == StatePath(src.id, src.strategy)
      loaded == IF ok THEN stateFiles[path] ELSE EmptyBlob
      g == IF ok THEN f ELSE Failed(f, "download")
  IN
  /\ f.pc = "download"
  /\ ok => path \in DOMAIN stateFiles
  /\ inv' = [inv EXCEPT ![i] =
       IF IsActive(loaded, src.id, f.timeNow)
         THEN AfterCheckEventState(
                [g EXCEPT !.eventStates = loaded],
                [active |-> TRUE,
                 delta |-> MathRound(Delta(loaded, src.id, f.timeNow), 1000)])
         ELSE LET states == WithRecord(loaded, src.id, f.timeNow) IN
              [g EXCEPT
                 !.eventStates = states,
                 !.calls = Append(@, [op |-> "save", bucket |-> bucketName, file |-> path,
                                      body |-> [stringified |-> TRUE, obj |-> states]]),
                 !.pc = "saveState"]]
  /\ History(i)
  /\ UNCHANGED <<process, configKeys, clock, outputFormat, stateFiles, objects, tmpFiles, nextUuid>>

\* variant: a failure of the save of the state file is swallowed
SaveStateDoneSwallowed(i, ok) ==
  LET f == inv[i]
      src == Src(f.msg)
      path == StatePath(src.id, src.strategy)
      g == IF ok THEN f ELSE Failed(f, "save state")
  IN
  /\ f.pc = "saveState"
  /\ stateFiles' = IF ok THEN Written(stateFiles, path, f.eventStates) ELSE stateFiles
  /\ inv' = [inv EXCEPT ![i] = AfterCheckEventState(g, [active |-> FALSE])]
  /\ History(i)
  /\ UNCHANGED <<process, configKeys, clock, outputFormat, objects, tmpFiles, nextUuid>>

\* variant: the save is conditional on the state in the bucket: when
\* another invocation has written a record that makes the event active in the
\* meantime, nothing is written and the event is reported as active
SaveStateDoneIfUnchanged(i, ok) ==
  LET f == inv[i]
      src == Src(f.msg)
      path == StatePath(src.id, src.strategy)
      current == IF path \in DOMAIN stateFiles THEN stateFiles[path] ELSE EmptyBlob
  IN
  /\ f.pc = "saveState"
  /\ IF ~ok THEN
       /\ stateFiles' = stateFiles
       /\ inv' = [inv EXCEPT ![i] = Catch(Failed(f, "save state"), "save state failed")]
     ELSE IF IsActive(current, src.id, f.timeNow) THEN
       /\ stateFiles' = stateFiles
       /\ inv' = [inv EXCEPT ![i] =
                    AfterCheckEventState(f,
                      [active |-> TRUE,
                       delta |-> MathRound(Delta(current, src.id, f.timeNow), 1000)])]
     ELSE
       /\ stateFiles' = Written(stateFiles, path, f.eventStates)
       /\ inv' = [inv EXCEPT ![i] = AfterCheckEventState(f, [active |-> FALSE])]
  /\ History(i)
  /\ UNCHANGED <<process, configKeys, clock, outputFormat, objects, tmpFiles, nextUuid>>

\* variant: the record is not stored before the audit (left for the end of
\* the invocation)
SaveStateDoneDeferred(i, ok) ==
  LET f == inv[i] IN
  /\ f.pc = "saveState"
  /\ stateFiles' = stateFiles
  /\ inv' = [inv EXCEPT ![i] =
               IF ok THEN AfterCheckEventState(f, [active |-> FALSE])
                     ELSE Catch(Failed(f, "save state"), "save state failed")]
  /\ History(i)
  /\ UNCHANGED <<process, configKeys, clock, outputFormat, objects, tmpFiles, nextUuid>>

\* checkEventState: the save of the state file completes; on success
\* checkEventState returns {active: false}.
SaveStateDone(i, ok) ==
  LET f == inv[i]
      src == Src(f.msg)
      path == StatePath(src.id, src.strategy)
  IN
  /\ f.pc = "saveState"
  /\ IF ok THEN
       /\ stateFiles' = Written(stateFiles, path, f.eventStates)
       /\ inv' = [inv EXCEPT ![i] = AfterCheckEventState(f, [active |-> FALSE])]
     ELSE
       /\ stateFiles' = stateFiles
       /\ inv' = [inv EXCEPT ![i] = Catch(Failed(f, "save state"), "save state failed")]
  /\ History(i)
  /\ UNCHANGED <<process, configKeys, clock, outputFormat, objects, tmpFiles, nextUuid>>

\* variant: a failed API call is tried once more
RunPagespeedDoneRetry(i, ok, ts) ==
  LET f == inv[i]
      a == ReportArguments(Src(f.msg))
  IN
  /\ f.pc = "runpagespeed"
  /\ IF ok THEN
       /\ outputFormat' = [defined |-> TRUE, list |-> outputFormat.list]
       /\ inv' = [inv EXCEPT ![i] =
            WriteLogAndReportsToStorage(
              [f EXCEPT
                 !.json = <<Annotated(a, ts)>>,
                 !.logs = Append(@, <<a.id, "Pagespeed Insight report received",
                                      a.url, a.strategy>>)],
              outputFormat.list)]
     ELSE
       /\ outputFormat' = outputFormat
       /\ inv' = [inv EXCEPT ![i] =
            IF FailedIn(f, "runpagespeed")
              THEN Catch(Failed(f, "runpagespeed"), "runpagespeed failed")
              ELSE [Failed(f, "runpagespeed") EXCEPT
                      !.calls = Append(@, RunPagespeedCall(a))]]
  /\ UNCHANGED <<process, configKeys, clock, stateFiles, objects, tmpFiles, nextUuid, fetched>>

\* getPagespeedInsightsReport: the API call completes; on success the report
\* is annotated and writeLogAndReportsToStorage runs up to its first await.
\* ts is the analysisUTCTimestamp of the response.
RunPagespeedDone(i, ok, ts) ==
  LET f == inv[i]
      a == ReportArguments(Src(f.msg))
  IN
  /\ f.pc = "runpagespeed"
  /\ IF ok THEN
       /\ outputFormat' = [defined |-> TRUE, list |-> outputFormat.list]
       /\ inv' = [inv EXCEPT ![i] =
            WriteLogAndReportsToStorage(
              [f EXCEPT
                 !.json = <<Annotated(a, ts)>>,
                 !.logs = Append(@, <<a.id, "Pagespeed Insight report received",
                                      a.url, a.strategy>>)],
              outputFormat.list)]
     ELSE
       /\ outputFormat' = outputFormat
       /\ inv' = [inv EXCEPT ![i] = Catch(Failed(f, "runpagespeed"), "runpagespeed failed")]
  /\ UNCHANGED <<process, configKeys, clock, stateFiles, objects, tmpFiles, nextUuid, fetched>>

\* variant: a failed report write is swallowed and the log is written when
\* all report writes have settled
ReportSaveDoneSwallowed(i, k, ok) ==
  LET f == inv[i]
      g == IF ok THEN [f EXCEPT !.reportSaves[k] = "ok"]
                 ELSE Failed([f EXCEPT !.reportSaves[k] = "failed"], "save report")
  IN
  /\ k \in DOMAIN f.reportSaves
  /\ f.reportSaves[k] = "pending"
  /\ LET c == ReportSaveCall(f.json[1], f.json[1].id) IN
     objects' = IF ok THEN Written(objects, c.file, c.body) ELSE objects
  /\ inv' = [inv EXCEPT ![i] =
               IF f.pc = "reportSaves"
                    /\ \A j \in DOMAIN g.reportSaves : g.reportSaves[j] # "pending"
                 THEN IssueLogSave(g)
               ELSE g]
  /\ UNCHANGED <<process, configKeys, clock, outputFormat, stateFiles, tmpFiles, nextUuid, fetched>>

\* writeLogAndReportsToStorage: one report write settles.  Promise.all
\* rejects with the first rejection; when all have resolved the log write is
\* issued.
ReportSaveDone(i, k, ok) ==
  LET f == inv[i]
      g == IF ok THEN [f EXCEPT !.reportSaves[k] = "ok"]
                 ELSE Failed([f EXCEPT !.reportSaves[k] = "failed"], "save report")
  IN
  /\ k \in DOMAIN f.reportSaves
  /\ f.reportSaves[k] = "pending"
  /\ LET c == ReportSaveCall(f.json[1], f.json[1].id) IN
     objects' = IF ok THEN Written(objects, c.file, c.body) ELSE objects
  /\ inv' = [inv EXCEPT ![i] =
               IF f.pc = "reportSaves" /\ ~ok
                 THEN Catch(g, "save report failed")
               ELSE IF f.pc = "reportSaves"
                       /\ \A j \in DOMAIN g.reportSaves : g.reportSaves[j] = "ok"
                 THEN IssueLogSave(g)
               ELSE g]
  /\ UNCHANGED <<process, configKeys, clock, outputFormat, stateFiles, tmpFiles, nextUuid, fetched>>

\* variant: a failure of the log write is swallowed and the invocation goes on
LogSaveDoneSwallowed(i, ok) ==
  LET f == inv[i]
      c == LogSaveCall(f.json[1], f.json[1].id)
      obj == [f.json[1] EXCEPT !.job_id = <<f.uuid>>]
      g == IF ok THEN f ELSE Failed(f, "save log")
  IN
  /\ f.pc = "logSave"
  /\ objects' = IF ok THEN Written(objects, c.file, c.body) ELSE objects
  /\ inv' = [inv EXCEPT ![i] =
               [g EXCEPT !.json = <<obj>>,
                         !.calls = Append(@, WriteFileCall(f.uuid, obj)),
                         !.pc = "writeFile"]]
  /\ UNCHANGED <<process, configKeys, clock, outputFormat, stateFiles, tmpFiles, nextUuid, fetched>>

\* writeLogAndReportsToStorage: the log write completes; on success
\* json.job_id is set and the write of the scratch file is issued.
LogSaveDone(i, ok) ==
  LET f == inv[i] IN
  /\ f.pc = "logSave"
  /\ IF ok THEN
       LET c == LogSaveCall(f.json[1], f.json[1].id)
           obj == [f.json[1] EXCEPT !.job_id = <<f.uuid>>]
       IN
       /\ objects' = Written(objects, c.file, c.body)
       /\ inv' = [inv EXCEPT ![i] =
                    [f EXCEPT !.json = <<obj>>,
                              !.calls = Append(@, WriteFileCall(f.uuid, obj)),
                              !.pc = "writeFile"]]
     ELSE
       /\ objects' = objects
       /\ inv' = [inv EXCEPT ![i] = Catch(Failed(f, "save log"), "save log failed")]
  /\ UNCHANGED <<process, configKeys, clock, outputFormat, stateFiles, tmpFiles, nextUuid, fetched>>

\* launchPagespeedInsights: the write of the scratch file completes; on
\* success the load is submitted and its promise returned without await.
WriteFileDone(i, ok) ==
  LET f == inv[i] IN
  /\ f.pc = "writeFile"
  /\ IF ok THEN
       /\ tmpFiles' = Written(tmpFiles, f.uuid, toNdjson(f.json[1]))
       /\ inv' = [inv EXCEPT ![i] =
                    [f EXCEPT !.logs = Append(@, <<f.msg, "BigQuery job starting", f.uuid>>),
                              !.calls = Append(@, LoadCall(f.uuid)),
                              !.pc = "load"]]
     ELSE
       /\ tmpFiles' = tmpFiles
       /\ inv' = [inv EXCEPT ![i] = Catch(Failed(f, "writeFile"), "writeFile failed")]
  /\ UNCHANGED <<process, configKeys, clock, outputFormat, stateFiles, objects, nextUuid, fetched>>

\* The promise of table.load settles and with it the promise returned by
\* launchPagespeedInsights: the catch block does not see the rejection of a
\* promise that was returned without await.
LoadDone(i, ok) ==
  LET f == inv[i] IN
  /\ f.pc = "load"
  /\ inv' = [inv EXCEPT ![i] =
               IF ok THEN Return(f)
                     ELSE [Failed(f, "load") EXCEPT !.pc = "done", !.outcome = "rejected"]]
  /\ UNCHANGED <<process, configKeys, clock, outputFormat, stateFiles, objects, tmpFiles, nextUuid, fetched>>

\* The API reports the time of the analysis, read off the clock.
AnalysisTimestamps == {clock}

Next ==
  \E i \in Invocations :
    \/ \E data \in Payloads, now \in 0..MaxTime : Sequential(i) /\ Start(i, data, now)
    \/ \E k \in 1..Len(source), ok \in BOOLEAN : PublishDone(i, k, ok)
    \/ \E ok \in BOOLEAN : DownloadDone(i, ok)
    \/ \E ok \in BOOLEAN : SaveStateDone(i, ok)
    \/ \E ok \in BOOLEAN, ts \in AnalysisTimestamps : RunPagespeedDone(i, ok, ts)
    \/ \E k \in 1..3, ok \in BOOLEAN : ReportSaveDone(i, k, ok)
    \/ \E ok \in BOOLEAN : LogSaveDone(i, ok)
    \/ \E ok \in BOOLEAN : WriteFileDone(i, ok)
    \/ \E ok \in BOOLEAN : LoadDone(i, ok)

Spec == Init /\ [][Next]_vars

\* ---------------------------------------------------------------- fairness
\* The call an invocation awaits returns or fails.
Completion(i) ==
  \/ \E k \in 1..Len(source), ok \in BOOLEAN : PublishDone(i, k, ok)
  \/ \E ok \in BOOLEAN : DownloadDone(i, ok)
  \/ \E ok \in BOOLEAN : SaveStateDone(i, ok)
  \/ \E ok \in BOOLEAN, ts \in AnalysisTimestamps : RunPagespeedDone(i, ok, ts)
  \/ \E k \in 1..3, ok \in BOOLEAN : ReportSaveDone(i, k, ok)
  \/ \E ok \in BOOLEAN : LogSaveDone(i, ok)
  \/ \E ok \in BOOLEAN : WriteFileDone(i, ok)
  \/ \E ok \in BOOLEAN : LoadDone(i, ok)

\* Every awaited I/O call eventually returns or fails.
FairSpec == Spec /\ \A i \in Invocations : WF_vars(Completion(i))

\* ------------------------------------------------ overlapping invocations
\* Trigger messages are delivered while earlier invocations are still
\* running (several function instances over the same bucket): Start does not
\* wait for the running invocation.  Each invocation has its own record.
OverlapNext ==
  \E i \in Invocations :
    \/ \E data \in Payloads, now \in 0..MaxTime :
         nextUuid <= Cardinality(Invocations) /\ Start(i, data, now)
    \/ \E k \in 1..Len(source), ok \in BOOLEAN : PublishDone(i, k, ok)
    \/ \E ok \in BOOLEAN : DownloadDone(i, ok)
    \/ \E ok \in BOOLEAN : SaveStateDone(i, ok)
    \/ \E ok \in BOOLEAN, ts \in AnalysisTimestamps : RunPagespeedDone(i, ok, ts)
    \/ \E k \in 1..3, ok \in BOOLEAN : ReportSaveDone(i, k, ok)
    \/ \E ok \in BOOLEAN : LogSaveDone(i, ok)
    \/ \E ok \in BOOLEAN : WriteFileDone(i, ok)
    \/ \E ok \in BOOLEAN : LoadDone(i, ok)

OverlapSpec == Init /\ [][OverlapNext]_vars

\* ------------------------------------------------- a bucket already in use
\* State blobs found in the bucket at googlesearch/mobile/state.json that
\* this deployment did not write: they hold records under other keys too (the
\* blob is keyed by id, as in the single states.json of the comment on
\* checkEventState).
FoundBlobs ==
  { [k \in {ebay} |-> [created |-> 0]],
    [k \in {ebay, googlesearch} |-> [created |-> 0]] }

SharedBlobInit ==
  /\ process = "serving"
  /\ configKeys = RequiredKeys \ {"outputFormat"}
  /\ clock = 0
  /\ outputFormat \in OutputFormats
  /\ \E blob \in FoundBlobs :
       stateFiles = [p \in {StatePath(googlesearch, "mobile")} |-> blob]
  /\ objects = [p \in {} |-> [stringified |-> FALSE, obj |-> 0]]
  /\ tmpFiles = [u \in {} |-> <<>>]
  /\ nextUuid = 1
  /\ fetched = <<>>
  /\ inv = [i \in Invocations |-> NewFrame]

SharedBlobSpec == SharedBlobInit /\ [][Next]_vars

\* ---------------------------------------------------------------- startup
\* config.json as deployed: complete, or with one required key missing
ConfigFiles ==
  {RequiredKeys \ {"outputFormat"}}
    \cup {RequiredKeys \ {"outputFormat", k} : k \in RequiredKeys \ {"outputFormat"}}

\* the process before the module body has run
StartupInit ==
  /\ process = "loading"
  /\ configKeys \in ConfigFiles
  /\ clock = 0
  /\ outputFormat \in OutputFormats
  /\ stateFiles = [p \in {} |-> EmptyBlob]
  /\ objects = [p \in {} |-> [stringified |-> FALSE, obj |-> 0]]
  /\ tmpFiles = [u \in {} |-> <<>>]
  /\ nextUuid = 1
  /\ fetched = <<>>
  /\ inv = [i \in Invocations |-> NewFrame]

\* variant: the validation errors are not thrown
initIgnoresErrors ==
  /\ process = "loading"
  /\ process' = "serving"
  /\ UNCHANGED <<clock, outputFormat, stateFiles, objects, tmpFiles, nextUuid,
                 fetched, configKeys, inv>>

\* if (process.env.NODE_ENV !== 'test') init(): the error thrown by init()
\* ends the load of the module, and no function is exported
init ==
  /\ process = "loading"
  /\ process' = IF ValidationErrors # {} THEN "failed" ELSE "serving"
  /\ UNCHANGED <<clock, outputFormat, stateFiles, objects, tmpFiles, nextUuid,
                 fetched, configKeys, inv>>

StartupNext == init \/ Next

StartupSpec == StartupInit /\ [][StartupNext]_vars

\* ------------------------------------------- sendAllPubsubMsgs on its own
\* module.exports._sendAllPubSubMsgs: the function called directly, once, on
\* a freshly loaded module, with any list of ids.
IdLists == UNION {[1..n -> {googlesearch, ebay, cafe}] : n \in 0..MaxIds}

CallSendAllPubsubMsgs(i, ids) ==
  /\ \A j \in Invocations : inv[j].pc = "idle"
  /\ \A j \in Invocations : i <= j
  /\ inv' = [inv EXCEPT ![i] = SendAllPubsubMsgs(NewFrame, ids)]
  /\ UNCHANGED <<process, configKeys, clock, outputFormat, stateFiles, objects, tmpFiles, nextUuid, fetched>>

FanOutNext ==
  \E i \in Invocations :
    \/ \E ids \in IdLists : CallSendAllPubsubMsgs(i, ids)
    \/ \E k \in 1..MaxIds, ok \in BOOLEAN : PublishDone(i, k, ok)

FanOutSpec == Init /\ [][FanOutNext]_vars

\* ------------------------------------------------------------------ claims
\* what a call is: the operation, and for a save the kind of object
CallKind(c) == IF c.op = "save" THEN <<"save", c.file[3]>> ELSE <<c.op>>

CallKinds(f) == [k \in DOMAIN f.calls |-> CallKind(f.calls[k])]

CountKind(f, kind) == Cardinality({k \in DOMAIN f.calls : CallKind(f.calls[k]) = kind})

\* the trigger of the invocation names a configured source
NamesSource(f) == f.pc # "idle" /\ \E k \in DOMAIN source : source[k].id = f.msg

\* the configured source with the id of the trigger
SourceOf(f) == source[CHOOSE k \in DOMAIN source : source[k].id = f.msg]

\* checkEventState has returned {active: true, ...}
Debounced(f) == f.eventState # <<>> /\ f.eventState[1].active

NJson == Cardinality({k \in DOMAIN outputFormat.list : outputFormat.list[k] = "json"})

\* C1 (as claimed): checkEventState decides active=true exactly when the
\* loaded state holds a record for id with now - created < T (d = 0 and
\* negative d included); otherwise the record is rewritten with created = now.
C1_ActiveIffRecordYoungerThanT ==
  [][\A i \in Invocations :
       (inv[i].pc = "download" /\ inv'[i].pc # "download") =>
         LET f == inv[i]
             g == inv'[i]
             src == SourceOf(f)
             path == StatePath(src.id, src.strategy)
             loaded == IF "download" \in Range(g.failures) THEN EmptyBlob
                       ELSE stateFiles[path]
             young == /\ src.id \in DOMAIN loaded
                      /\ f.timeNow - loaded[src.id].created < minTimeBetweenTriggers
         IN /\ Debounced(g) <=> young
            /\ ~Debounced(g) =>
                 /\ g.eventStates[src.id].created = f.timeNow
                 /\ g.calls[Len(g.calls)].op = "save"
                 /\ g.calls[Len(g.calls)].body.obj = g.eventStates]_vars

\* C2 (as claimed): of two invocations for the same source that both reach
\* the Report Fetcher, run one after the other, the later one having read the
\* state, the trigger timestamps are at least T apart.
C2_FetchesAtLeastTApart ==
  \A a, b \in DOMAIN fetched :
    (a < b /\ fetched[a].id = fetched[b].id /\ fetched[b].read) =>
      fetched[b].timeNow - fetched[a].timeNow >= minTimeBetweenTriggers

\* C3: when checkEventState returns active=true the invocation only logs the
\* abort line and ends: the only call it ever made is the download of the
\* state, and the step that decides it changes nothing in the bucket or /tmp.
C3_ActiveMutatesNothing ==
  /\ [](\A i \in Invocations :
          Debounced(inv[i]) =>
            /\ inv[i].pc = "done" /\ inv[i].outcome = "resolved"
            /\ CallKinds(inv[i]) = <<<<"download">>>>
            /\ inv[i].json = <<>> /\ inv[i].errors = <<>>
            /\ Len(inv[i].logs) = 2
            /\ inv[i].logs[2][2] = "Found active event, aborting")
  /\ [][\A i \in Invocations :
          (~Debounced(inv[i]) /\ Debounced(inv'[i])) =>
            /\ UNCHANGED <<stateFiles, objects, tmpFiles>>
            /\ inv'[i].eventStates = stateFiles[inv[i].calls[1].file]]_vars

C3_Witness ==
  \E i \in Invocations :
    /\ Debounced(inv[i]) /\ inv[i].pc = "done"
    /\ inv[i].eventStates[inv[i].msg].created < inv[i].timeNow

\* C4 (as claimed): the promise returned by launchPagespeedInsights never
\* rejects, whatever the payload and whichever downstream call fails.
C4_NeverRejects == \A i \in Invocations : inv[i].outcome # "rejected"

\* C5: a payload that is neither 'all' nor a configured id gives exactly one
\* error log, 'No valid message found!', no call to any client, no change
\* of the bucket or /tmp, and the invocation ends without throwing.
C5_InvalidMessageOnlyLogs ==
  /\ [](\A i \in Invocations :
          (inv[i].pc # "idle" /\ inv[i].msg # all /\ ~NamesSource(inv[i])) =>
            /\ inv[i].errors = <<"No valid message found!">>
            /\ inv[i].calls = <<>> /\ inv[i].publishes = <<>>
            /\ inv[i].failures = <<>>
            /\ inv[i].pc = "done" /\ inv[i].outcome = "resolved")
  /\ [][\A i \in Invocations :
          (inv'[i] # inv[i] /\ inv'[i].msg # all /\ ~NamesSource(inv'[i])) =>
            UNCHANGED <<stateFiles, objects, tmpFiles, fetched>>]_vars

C5_Witness ==
  \E i \in Invocations :
    /\ inv[i].msg = invalid_message /\ inv[i].pc = "done"
    /\ inv[i].errors = <<"No valid message found!">>

\* C6: for the payload 'all' the invocation publishes one message per
\* configured source id and does nothing else: no state download or save, no
\* audit call, no storage write, no scratch file, no load; it ends when the
\* publishes are done.
C6_AllOnlyFansOut ==
  /\ [](\A i \in Invocations :
          (inv[i].pc # "idle" /\ inv[i].msg = all) =>
            /\ Len(inv[i].calls) = Len(source)
            /\ \A k \in DOMAIN inv[i].calls :
                 /\ inv[i].calls[k].op = "publish"
                 /\ BufferToString(inv[i].calls[k].data) = source[k].id
            /\ inv[i].eventState = <<>> /\ inv[i].json = <<>>
            /\ inv[i].reportSaves = <<>>
            /\ inv[i].pc \in {"publishing", "done"}
            /\ (\A k \in DOMAIN inv[i].publishes : inv[i].publishes[k].state = "ok")
                 => inv[i].pc = "done")
  /\ [][\A i \in Invocations :
          (inv'[i] # inv[i] /\ inv'[i].msg = all) =>
            UNCHANGED <<stateFiles, objects, tmpFiles, fetched>>]_vars

C6_Witness ==
  \E i \in Invocations :
    /\ inv[i].msg = all /\ inv[i].pc = "done" /\ inv[i].outcome = "resolved"
    /\ Len(inv[i].calls) = 2

\* C7: sendAllPubsubMsgs(ids) issues exactly one publish per element of ids,
\* in the order of ids, each with the bytes of its id as data and each to the
\* topic config.pubsubTopicId.
C7_OnePublishPerIdInOrder ==
  \A i \in Invocations :
    LET f == inv[i]
        published == SelectSeq(f.calls, LAMBDA c : c.op = "publish")
    IN
    /\ Len(published) = Len(f.publishes)
    /\ \A k \in DOMAIN f.publishes :
         /\ published[k].topic = pubsubTopicId
         /\ published[k].data = BufferFrom(f.publishes[k].id)
         /\ BufferToString(published[k].data) = f.publishes[k].id

C7_Witness ==
  \E i \in Invocations :
    /\ inv[i].pc = "done"
    /\ Len(inv[i].calls) = 3
    /\ inv[i].publishes[1].id = cafe
    /\ inv[i].publishes[2].id = ebay
    /\ inv[i].publishes[3].id = ebay

\* C8: writeLogAndReportsToStorage saves one report per 'json' entry of
\* outputFormat and one log, 1 + (number of 'json' entries) objects in all
\* (two for ["json"], one when outputFormat is absent or empty), all under
\* {id}/{formFactor}/ with the analysis timestamp in the name.
C8_SavesOnePlusJsonEntries ==
  \A i \in Invocations :
    LET f == inv[i] IN
    /\ CountKind(f, <<"save", "report">>) \in {0, NJson}
    /\ CountKind(f, <<"save", "log">>) <= 1
    /\ CountKind(f, <<"save", "log">>) = 1 =>
         /\ CountKind(f, <<"save", "report">>) + CountKind(f, <<"save", "log">>) = 1 + NJson
         /\ \A k \in DOMAIN f.calls :
              CallKind(f.calls[k])[1] = "save" /\ CallKind(f.calls[k])[2] # "state.json" =>
                /\ f.calls[k].bucket = bucketName
                /\ f.calls[k].file[1] = f.json[1].id
                /\ f.calls[k].file[2] = f.json[1].emulatedFormFactor
                /\ f.calls[k].file[4] = f.json[1].analysisUTCTimestamp
    /\ f.pc \in {"writeFile", "load"} =>
         /\ CountKind(f, <<"save", "log">>) = 1
         /\ \A k \in DOMAIN f.calls :
              CallKind(f.calls[k])[1] = "save" => f.calls[k].file \in DOMAIN objects \cup DOMAIN stateFiles

C8_Witness ==
  \E i \in Invocations :
    /\ inv[i].pc = "writeFile"
    /\ outputFormat.list = <<"csv", "json", "html">>
    /\ CountKind(inv[i], <<"save", "report">>) = 1
    /\ CountKind(inv[i], <<"save", "log">>) = 1

\* the calls of an invocation that runs the whole pipeline, in order
Pipeline ==
  <<<<"download">>, <<"save", "state.json">>, <<"runpagespeed">>>>
    \o [k \in 1..NJson |-> <<"save", "report">>]
    \o <<<<"save", "log">>, <<"writeFile">>, <<"load">>>>

IsPrefix(s, t) == Len(s) <= Len(t) /\ \A k \in DOMAIN s : s[k] = t[k]

\* C9: for a trigger naming a configured source the calls are made in the
\* order state download and save, audit, report and log writes, scratch file
\* write, load; a step is started only when the one before has succeeded, and
\* an invocation that is not debounced and meets no failure submits exactly
\* one load, into table 'reports'.
C9_PipelineInOrder ==
  \A i \in Invocations :
    LET f == inv[i]
        Issued(kind) == CountKind(f, kind) > 0
        Ok(op) == op \notin Range(f.failures)
    IN
    NamesSource(f) =>
      /\ IsPrefix(CallKinds(f), Pipeline)
      /\ Issued(<<"runpagespeed">>) =>
           f.eventState = <<[active |-> FALSE]>> /\ Ok("save state")
      /\ Issued(<<"save", "report">>) \/ Issued(<<"save", "log">>) =>
           f.json # <<>> /\ Ok("runpagespeed")
      /\ Issued(<<"save", "log">>) =>
           \A k \in DOMAIN f.reportSaves : f.reportSaves[k] = "ok"
      /\ Issued(<<"writeFile">>) =>
           /\ Ok("save log")
           /\ LogSaveCall(f.json[1], f.json[1].id).file \in DOMAIN objects
      /\ Issued(<<"load">>) =>
           /\ Ok("writeFile")
           /\ f.uuid \in DOMAIN tmpFiles
           /\ f.calls[Len(f.calls)].table = "reports"
           /\ f.calls[Len(f.calls)].dataset = datasetId
      /\ (f.pc = "load" \/ (f.pc = "done" /\ ~Debounced(f) /\ f.errors = <<>>)) =>
           /\ CallKinds(f) = Pipeline
           /\ CountKind(f, <<"load">>) = 1

C9_Witness ==
  \E i \in Invocations :
    /\ inv[i].pc = "done" /\ inv[i].outcome = "resolved"
    /\ NJson = 2
    /\ Len(inv[i].calls) = 8
    /\ CountKind(inv[i], <<"load">>) = 1

\* C10 (as claimed): the audit API is called with the url, strategy and
\* category of the source, the report carries id, url and strategy of the
\* source, and report and log are written under {id}/{strategy}/.
C10_AuditUsesSourceFields ==
  \A i \in Invocations :
    LET f == inv[i] IN
    NamesSource(f) =>
      /\ \A k \in DOMAIN f.calls :
           /\ f.calls[k].op = "runpagespeed" =>
                /\ f.calls[k].url = SourceOf(f).url
                /\ f.calls[k].strategy = SourceOf(f).strategy
                /\ f.calls[k].category = SourceOf(f).category
           /\ CallKind(f.calls[k]) \in {<<"save", "report">>, <<"save", "log">>} =>
                /\ f.calls[k].file[1] = SourceOf(f).id
                /\ f.calls[k].file[2] = SourceOf(f).strategy
      /\ f.json # <<>> =>
           /\ f.json[1].id = SourceOf(f).id
           /\ f.json[1].url = SourceOf(f).url
           /\ f.json[1].emulatedFormFactor = SourceOf(f).strategy

\* C11 (as claimed): checkEventState called twice in immediate succession for
\* a fresh source, at now1 <= now2 with now2 - now1 < T (now2 = now1
\* included): the first call finds no blob, returns active=false and writes
\* the record; the second call, reading that record, returns active=true and
\* leaves the record as the first call wrote it.
C11_TwiceInactiveThenActive ==
  [][\A i \in Invocations :
       (inv[i].pc = "download" /\ inv'[i].pc # "download") =>
         LET f == inv[i]
             g == inv'[i]
             src == SourceOf(f)
             path == StatePath(src.id, src.strategy)
             earlier == {a \in DOMAIN fetched : fetched[a].id = src.id}
         IN /\ path \notin DOMAIN stateFiles =>
                 /\ ~Debounced(g) /\ g.pc = "saveState"
                 /\ g.eventStates[src.id].created = f.timeNow
            /\ ( /\ "download" \notin Range(g.failures)
                 /\ Cardinality(earlier) = 1
                 /\ \A a \in earlier :
                      /\ ~fetched[a].read
                      /\ stateFiles[path][src.id].created = fetched[a].timeNow
                      /\ f.timeNow - fetched[a].timeNow \in 0..(minTimeBetweenTriggers - 1) )
               => /\ Debounced(g) /\ g.pc = "done"
                  /\ stateFiles' = stateFiles]_vars

\* C12: in checkEventState a failure to load the state blob does not fail the
\* call: the state is taken as empty, the call decides active=false and saves
\* a blob holding the record of id with the current timestamp, and returns
\* {active: false} when the save succeeds.  A failure of that save ends the
\* invocation in the catch block: no audit, no storage write, no scratch
\* file, no load.
C12_LoadFailureIsColdStart ==
  /\ [](\A i \in Invocations :
          FailedIn(inv[i], "save state") =>
            /\ inv[i].pc = "done" /\ inv[i].errors # <<>>
            /\ CallKinds(inv[i]) = <<<<"download">>, <<"save", "state.json">>>>
            /\ inv[i].eventState = <<>> /\ inv[i].json = <<>>)
  /\ [][\A i \in Invocations :
          LET f == inv[i]
              g == inv'[i]
              src == SourceOf(f)
              path == StatePath(src.id, src.strategy)
              blob == Written(EmptyBlob, src.id, [created |-> f.timeNow])
          IN /\ (f.pc = "download" /\ g.pc # "download" /\ FailedIn(g, "download")) =>
                  /\ ~Debounced(g) /\ g.pc = "saveState"
                  /\ g.errors = <<>> /\ g.outcome = "none"
                  /\ g.eventStates = blob
                  /\ g.calls[Len(g.calls)] =
                       [op |-> "save", bucket |-> bucketName, file |-> path,
                        body |-> [stringified |-> TRUE, obj |-> blob]]
             /\ (f.pc = "saveState" /\ g.pc # "saveState") =>
                  IF FailedIn(g, "save state")
                    THEN UNCHANGED <<stateFiles, objects, tmpFiles, fetched>>
                    ELSE /\ g.eventState = <<[active |-> FALSE]>>
                         /\ stateFiles'[path] = f.eventStates
                         /\ g.pc = "runpagespeed"]_vars

\* a download error (not a missing object) hides a record younger than T
C12_Witness ==
  /\ Len(fetched) = 2
  /\ fetched[1].id = fetched[2].id
  /\ ~fetched[2].read
  /\ fetched[2].timeNow - fetched[1].timeNow = 1
  /\ \E i \in Invocations :
       inv[i].uuid = fetched[2].uuid /\ inv[i].failures = <<"download">>

PublishStates(f) == {f.publishes[k].state : k \in DOMAIN f.publishes}

Report(f) == [f.json[1] EXCEPT !.job_id = <<>>]

LogPath(f) ==
  ObjectPath(f.json[1].id, f.json[1].emulatedFormFactor, "log",
             f.json[1].analysisUTCTimestamp)

\* C14: a call of writeLogAndReportsToStorage issues one write of the log
\* object {id}/{formFactor}/log_{analysisTimestamp}.json, holding the whole
\* report as text, whatever outputFormat is (absent, empty, any list of html,
\* csv and json): never more than one; exactly one as soon as the report
\* writes of the call, if any, have succeeded; and when the call has returned
\* the object is in the bucket.
C14_OneLogForAnyOutputFormat ==
  \A i \in Invocations :
    LET f == inv[i]
        logs == SelectSeq(f.calls, LAMBDA c : CallKind(c) = <<"save", "log">>)
    IN
    /\ Len(logs) <= 1
    /\ f.json = <<>> => logs = <<>>
    /\ f.json # <<>> =>
         /\ Len(f.reportSaves) = Len(outputFormat.list)
         /\ Len(logs) = 1 <=> \A k \in DOMAIN f.reportSaves : f.reportSaves[k] = "ok"
         /\ Len(logs) = 1 =>
              logs[1] = [op |-> "save", bucket |-> bucketName, file |-> LogPath(f),
                         body |-> [stringified |-> TRUE, obj |-> Report(f)]]
         /\ (f.pc \in {"writeFile", "load"}
               \/ (f.pc = "done" /\ ~FailedIn(f, "save report") /\ ~FailedIn(f, "save log"))) =>
              /\ Len(logs) = 1
              /\ LogPath(f) \in DOMAIN objects
              /\ objects[LogPath(f)] = [stringified |-> TRUE, obj |-> Report(f)]

C14_Witness ==
  \E i \in Invocations :
    /\ inv[i].pc = "writeFile"
    /\ outputFormat.list = <<>>
    /\ DOMAIN objects = {LogPath(inv[i])}

Untouched ==
  /\ \A i \in Invocations : inv[i] = NewFrame
  /\ nextUuid = 1 /\ fetched = <<>>
  /\ DOMAIN stateFiles = {} /\ DOMAIN objects = {} /\ DOMAIN tmpFiles = {}

C16_ReadThenWriteNotAtomic ==
  /\ [](\A i \in Invocations :
          inv[i].pc = "saveState" => ENABLED SaveStateDone(i, TRUE))
  /\ [][\A i \in Invocations :
          LET f == inv[i]
              g == inv'[i]
              src == SourceOf(f)
              path == StatePath(src.id, src.strategy)
          IN (f.pc = "saveState" /\ g.pc # "saveState" /\ ~FailedIn(g, "save state")) =>
               /\ g.pc = "runpagespeed"
               /\ g.eventState = <<[active |-> FALSE]>>
               /\ stateFiles'[path] = Written(f.eventStates, src.id, [created |-> f.timeNow])
               /\ fetched' # fetched
               /\ fetched'[Len(fetched')].uuid = f.uuid]_vars

\* both have read the state, neither has written it, and the trigger
\* timestamps are less than T apart
C16_Witness ==
  /\ inv[1].pc = "saveState" /\ inv[2].pc = "saveState"
  /\ inv[1].msg = inv[2].msg
  /\ inv[2].timeNow - inv[1].timeNow = 1
  /\ 1 < minTimeBetweenTriggers
  /\ StatePath(SourceOf(inv[1]).id, SourceOf(inv[1]).strategy) \notin DOMAIN stateFiles

\* the path of the state blob of a configured source id
StatePathOf(id) == StatePath(id, Src(id).strategy)

\* the last invocation for id that called the audit API
LastFetch(id) ==
  CHOOSE a \in DOMAIN fetched :
    /\ fetched[a].id = id
    /\ \A b \in DOMAIN fetched : fetched[b].id = id => b <= a

\* C17 (as claimed): the record of a source is rewritten at the end of the
\* invocation, after the report was fetched, stored and submitted for load,
\* so that the bucket's state changes only in an invocation that has
\* submitted its load, and an invocation that fails before leaves it alone.
C17_RecordRewrittenAtEnd ==
  [][stateFiles' # stateFiles =>
       \E i \in Invocations :
         /\ inv'[i] # inv[i]
         /\ CountKind(inv'[i], <<"load">>) = 1]_vars

\* C17 (amended): the record is read at the start of the invocation and,
\* when the invocation is not debounced, rewritten with the fresh timestamp
\* by checkEventState, before the audit API is called; no later step touches
\* it.  So an invocation that fails in the audit call, the storage writes or
\* the load has already rewritten the record, and a redelivered trigger is
\* checked against that new timestamp.
C17_RecordRewrittenBeforeAudit ==
  /\ [](\A k \in DOMAIN source :
          (\E a \in DOMAIN fetched : fetched[a].id = source[k].id) =>
            /\ StatePathOf(source[k].id) \in DOMAIN stateFiles
            /\ stateFiles[StatePathOf(source[k].id)][source[k].id].created
                 = fetched[LastFetch(source[k].id)].timeNow)
  /\ [](\A i \in Invocations :
          (NamesSource(inv[i]) /\ CountKind(inv[i], <<"runpagespeed">>) > 0) =>
            fetched[LastFetch(inv[i].msg)].uuid = inv[i].uuid)
  /\ [][stateFiles' # stateFiles =>
          \E i \in Invocations :
            /\ inv[i].pc = "saveState" /\ inv'[i].pc = "runpagespeed"
            /\ CountKind(inv[i], <<"runpagespeed">>) = 0]_vars
  /\ [][\A i \in Invocations :
          (inv[i].pc = "download" /\ inv'[i].pc # "download"
             /\ ~FailedIn(inv'[i], "download")) =>
            inv[i].timeNow - fetched[LastFetch(inv[i].msg)].timeNow
              = Delta(stateFiles[inv[i].calls[1].file], inv[i].msg, inv[i].timeNow)]_vars

\* an invocation that replaced an older record and then failed in the audit
C17_Witness ==
  \E i \in Invocations :
    /\ inv[i].pc = "done" /\ FailedIn(inv[i], "runpagespeed")
    /\ Len(fetched) = 2
    /\ fetched[1].id = inv[i].msg /\ fetched[2].uuid = inv[i].uuid
    /\ fetched[2].timeNow = fetched[1].timeNow + minTimeBetweenTriggers
    /\ stateFiles[StatePathOf(inv[i].msg)][inv[i].msg].created = inv[i].timeNow

\* the operations whose failure ends the invocation
Downstream == {"save state", "runpagespeed", "save report", "save log", "writeFile", "load"}

HasFailed(f) == \E op \in Downstream : FailedIn(f, op)

\* C18: within one invocation the state save, the audit call, the log write,
\* the scratch file write and the load are each attempted at most once, and
\* there is one report write per 'json' entry; no operation fails twice; and
\* once one of them has failed the invocation has ended and issues no
\* further call: after a failed audit no storage write and no load, after a
\* failed storage write no scratch file and no load.
C18_FailuresAreTerminal ==
  /\ [](\A i \in Invocations :
          LET f == inv[i]
              Issued(kind) == CountKind(f, kind) > 0
          IN
          /\ \A kind \in {<<"download">>, <<"save", "state.json">>, <<"runpagespeed">>,
                          <<"save", "log">>, <<"writeFile">>, <<"load">>} :
               CountKind(f, kind) <= 1
          /\ CountKind(f, <<"save", "report">>) <= NJson
          /\ \A op \in Downstream \ {"save report"} :
               Cardinality({k \in DOMAIN f.failures : f.failures[k] = op}) <= 1
          /\ Cardinality({k \in DOMAIN f.failures : f.failures[k] = "save report"})
               <= CountKind(f, <<"save", "report">>)
          /\ HasFailed(f) => f.pc = "done"
          /\ FailedIn(f, "save state") => ~Issued(<<"runpagespeed">>)
          /\ FailedIn(f, "runpagespeed") =>
               ~Issued(<<"save", "report">>) /\ ~Issued(<<"save", "log">>)
          /\ FailedIn(f, "save report") => ~Issued(<<"save", "log">>)
          /\ (FailedIn(f, "save report") \/ FailedIn(f, "save log")
                \/ FailedIn(f, "runpagespeed") \/ FailedIn(f, "save state")) =>
               ~Issued(<<"writeFile">>) /\ ~Issued(<<"load">>)
          /\ FailedIn(f, "writeFile") => ~Issued(<<"load">>))
  /\ [][\A i \in Invocations :
          (HasFailed(inv[i]) /\ inv'[i].uuid = inv[i].uuid) =>
            /\ inv'[i].calls = inv[i].calls
            /\ inv'[i].pc = "done"]_vars

C18_Witness ==
  \E i \in Invocations :
    /\ inv[i].pc = "done" /\ inv[i].failures = <<"save log">>
    /\ CallKinds(inv[i]) =
         <<<<"download">>, <<"save", "state.json">>, <<"runpagespeed">>,
           <<"save", "report">>, <<"save", "log">>>>

\* C19: checkEventState(id, strategy, now) reads and writes the blob at
\* {id}/{strategy}/state.json only.  The blobs of all other paths stay as
\* they are; the bucket's state is written only by the save of the inactive
\* path, and the blob stored there is the blob that was loaded (the empty one
\* when the load failed) with the entry of id replaced and every other entry
\* kept; the active path writes nothing.
C19_OnlyOwnBlobOnlyOwnEntry ==
  /\ [](\A i \in Invocations : \A k \in DOMAIN inv[i].calls :
          inv[i].calls[k].op = "download" \/ CallKind(inv[i].calls[k]) = <<"save", "state.json">>
            => inv[i].calls[k].file = StatePathOf(inv[i].msg))
  /\ [][stateFiles' # stateFiles =>
          \E i \in Invocations :
            LET f == inv[i]
                path == StatePathOf(f.msg)
                loaded == IF FailedIn(f, "download") THEN EmptyBlob ELSE stateFiles[path]
            IN /\ f.pc = "saveState" /\ inv'[i].pc = "runpagespeed"
               /\ ~Debounced(inv'[i])
               /\ DOMAIN stateFiles' = DOMAIN stateFiles \cup {path}
               /\ \A p \in DOMAIN stateFiles : p # path => stateFiles'[p] = stateFiles[p]
               /\ DOMAIN stateFiles'[path] = DOMAIN loaded \cup {f.msg}
               /\ stateFiles'[path][f.msg] = [created |-> f.timeNow]
               /\ \A k \in DOMAIN loaded : k # f.msg => stateFiles'[path][k] = loaded[k]]_vars
  /\ [][\A i \in Invocations :
          (~Debounced(inv[i]) /\ Debounced(inv'[i])) => stateFiles' = stateFiles]_vars

\* the record of googlesearch was added to a blob that held one of ebay
C19_Witness ==
  LET path == StatePath(googlesearch, "mobile") IN
  /\ path \in DOMAIN stateFiles
  /\ DOMAIN stateFiles[path] = {ebay, googlesearch}
  /\ stateFiles[path][ebay].created = 0
  /\ stateFiles[path][googlesearch].created = 1
  /\ fetched # <<>> /\ fetched[1].read

\* the terminal states of the orchestrator
InvalidMessage(f) == f.errors = <<"No valid message found!">>

Errored(f) == HasFailed(f) \/ FailedIn(f, "publish")

FanOut(f) == f.msg = all /\ ~Errored(f)

Loaded(f) == CountKind(f, <<"load">>) = 1 /\ ~Errored(f)

TerminalStates(f) ==
  {t \in {"Loaded", "InvalidMessage", "FanOut", "Debounced", "Errored"} :
     \/ t = "Loaded" /\ Loaded(f)
     \/ t = "InvalidMessage" /\ InvalidMessage(f)
     \/ t = "FanOut" /\ FanOut(f)
     \/ t = "Debounced" /\ Debounced(f)
     \/ t = "Errored" /\ Errored(f)}

\* C20: when every awaited call eventually returns or fails, every
\* invocation of launchPagespeedInsights ends, and an ended invocation is in
\* exactly one of Loaded, InvalidMessage, FanOut, Debounced, Errored; it is in
\* Loaded only when its payload names a configured source, it was not
\* debounced and every step of the pipeline succeeded.
C20_TerminatesInOneTerminalState ==
  /\ [](\A i \in Invocations :
          /\ inv[i].pc \in {"idle", "publishing", "download", "saveState", "runpagespeed",
                            "reportSaves", "logSave", "writeFile", "load", "done"}
          /\ inv[i].pc = "done" =>
               /\ Cardinality(TerminalStates(inv[i])) = 1
               /\ Loaded(inv[i]) =>
                    /\ NamesSource(inv[i]) /\ ~Debounced(inv[i])
                    /\ inv[i].errors = <<>> /\ inv[i].outcome = "resolved"
                    /\ CallKinds(inv[i]) = Pipeline
                    /\ inv[i].uuid \in DOMAIN tmpFiles
                    /\ LogPath(inv[i]) \in DOMAIN objects)
  /\ \A i \in Invocations :
       (inv[i].pc \notin {"idle", "done"}) ~> (inv[i].pc = "done")

C20_Witness ==
  \E i \in Invocations :
    /\ inv[i].pc = "done" /\ Loaded(inv[i])
    /\ inv[i].failures = <<"download">>
    /\ nextUuid = MaxInvocations + 1

\* C21: sendAllPubsubMsgs starts the publishes of all ids before it observes
\* the completion of any: the first lines it logs are the 'Sending init
\* PubSub message' lines of all ids, in order, with the publish of each id
\* called; every 'Init PubSub message sent' line comes after them, one per
\* completed publish; and a pending publish can complete whatever the state
\* of the others.
C21_AllPublishesStartedFirst ==
  /\ [](\A i \in Invocations :
          LET f == inv[i]
              n == Len(f.publishes)
          IN
          n > 0 =>
            /\ Len(f.logs) >= n /\ Len(f.calls) = n
            /\ \A k \in 1..n :
                 /\ f.logs[k] = <<f.publishes[k].id, "Sending init PubSub message">>
                 /\ f.calls[k] = PublishCall(f.publishes[k].id)
            /\ \A k \in (n + 1)..Len(f.logs) : f.logs[k][2] = "Init PubSub message sent"
            /\ Len(f.logs) - n
                 = Cardinality({k \in 1..n : f.publishes[k].state = "ok"})
            /\ \A k \in 1..n :
                 f.publishes[k].state = "pending" => ENABLED PublishDone(i, k, TRUE))
  /\ [][\A i \in Invocations :
          (inv[i].publishes = <<>> /\ inv'[i].publishes # <<>>) =>
            /\ \A k \in DOMAIN inv'[i].publishes : inv'[i].publishes[k].state = "pending"
            /\ Len(inv'[i].calls) = Len(inv'[i].publishes)]_vars

\* the last publish has completed while the first two are pending
C21_Witness ==
  \E i \in Invocations :
    /\ Len(inv[i].publishes) = 3
    /\ inv[i].publishes[1].state = "pending"
    /\ inv[i].publishes[2].state = "pending"
    /\ inv[i].publishes[3].state = "ok"
    /\ Len(inv[i].logs) = 4

\* C22: an invocation generates one job id; it is the job_id of the report,
\* the name of the scratch file and the jobId of the load.  The job_id is
\* attached only when writeLogAndReportsToStorage has returned, so the
\* objects in the bucket carry none; and no two invocations have the same id.
C22_OneJobIdEverywhere ==
  /\ \A i \in Invocations :
       LET f == inv[i] IN
       /\ f.pc # "idle" => f.uuid \in 1..(nextUuid - 1)
       /\ f.pc \in {"reportSaves", "logSave"} => f.json[1].job_id = <<>>
       /\ (f.json # <<>> /\ f.json[1].job_id # <<>>) =>
            /\ f.json[1].job_id = <<f.uuid>>
            /\ CountKind(f, <<"save", "log">>) = 1 /\ ~FailedIn(f, "save log")
            /\ \A k \in DOMAIN f.reportSaves : f.reportSaves[k] = "ok"
            /\ LogPath(f) \in DOMAIN objects
       /\ \A k \in DOMAIN f.calls :
            /\ f.calls[k].op = "writeFile" =>
                 /\ f.calls[k].file = f.uuid
                 /\ f.calls[k].content = <<f.json[1]>>
                 /\ f.json[1].job_id = <<f.uuid>>
            /\ f.calls[k].op = "load" =>
                 /\ f.calls[k].file = f.uuid
                 /\ f.calls[k].metadata.jobId = f.uuid
                 /\ f.uuid \in DOMAIN tmpFiles
                 /\ tmpFiles[f.uuid] = <<f.json[1]>>
                 /\ f.json[1].job_id = <<f.uuid>>
  /\ \A i, j \in Invocations :
       (i # j /\ inv[i].pc # "idle" /\ inv[j].pc # "idle") => inv[i].uuid # inv[j].uuid
  /\ \A a, b \in DOMAIN fetched : a # b => fetched[a].uuid # fetched[b].uuid
  /\ \A u \in DOMAIN tmpFiles : tmpFiles[u][1].job_id = <<u>>
  /\ \A p \in DOMAIN objects : objects[p].obj.job_id = <<>>

\* two invocations have reached the load
C22_Witness ==
  /\ Cardinality(DOMAIN tmpFiles) = 2
  /\ Len(fetched) = 2
  /\ \E i \in Invocations :
       /\ inv[i].pc = "done" /\ CountKind(inv[i], <<"load">>) = 1
       /\ inv[i].uuid = fetched[2].uuid

ReportPath(f) ==
  ObjectPath(f.json[1].id, f.json[1].emulatedFormFactor, "report",
             f.json[1].analysisUTCTimestamp)

\* C23: in writeLogAndReportsToStorage the report writes are all issued
\* when the call starts and complete independently; the log write is issued
\* only when every one of them has completed successfully.  When a report
\* write fails the call fails (the invocation ends in the catch block), no
\* log write is issued, and nothing is removed from the bucket: the reports
\* already written stay.
C23_LogAfterReportsNoRollback ==
  /\ [](\A i \in Invocations :
          LET f == inv[i] IN
          f.json # <<>> =>
            /\ CountKind(f, <<"save", "report">>) = NJson
            /\ CountKind(f, <<"save", "log">>) > 0 =>
                 /\ \A k \in DOMAIN f.reportSaves : f.reportSaves[k] = "ok"
                 /\ NJson > 0 => ReportPath(f) \in DOMAIN objects
            /\ \A k \in DOMAIN f.reportSaves :
                 f.reportSaves[k] = "pending" => ENABLED ReportSaveDone(i, k, TRUE)
            /\ FailedIn(f, "save report") =>
                 /\ f.pc = "done" /\ f.errors # <<>>
                 /\ CountKind(f, <<"save", "log">>) = 0
                 /\ CountKind(f, <<"writeFile">>) = 0)
  /\ [][/\ \A p \in DOMAIN objects : p \in DOMAIN objects' /\ objects'[p].obj = objects[p].obj
        /\ \A i \in Invocations :
             (~FailedIn(inv[i], "save report") /\ FailedIn(inv'[i], "save report")) =>
               objects' = objects]_vars

\* one report write has succeeded, the other has failed: the report is in the
\* bucket and no log is
C23_Witness ==
  \E i \in Invocations :
    /\ inv[i].pc = "done"
    /\ inv[i].reportSaves = <<"ok", "failed">>
    /\ DOMAIN objects = {ReportPath(inv[i])}

====
